---------------------------- MODULE Spec2Model ----------------------------
(***************************************************************************)
(* A model of the file-share service: the chunked-upload session manager   *)
(* (app/utils/chunked_upload.py), the upload / delete handlers             *)
(* (app/api/routers/files.py, app/services/file_service.py,                *)
(* app/services/admin_service.py) and the per-user storage counter         *)
(* (app/db/models.py).                                                     *)
(*                                                                         *)
(* Concurrency: the server runs one uvicorn worker (run_server.py:30).     *)
(* An `async def` handler runs on the event loop and is interrupted only   *)
(* at an `await`; each stretch between two awaits is one action here.      *)
(* complete_chunked_upload has the stretches                               *)
(*   begin    - the dependencies load the User row (api/deps.py:46-66),    *)
(*   assemble - files.py:205-233, up to `await run_in_executor(hash)`,     *)
(*   commit   - files.py:247-281,                                          *)
(*   cleanup  - the background task scheduled at files.py:270.             *)
(* Sizes are scaled: one unit stands for any fixed number of bytes.        *)
(***************************************************************************)
EXTENDS Integers, Sequences, FiniteSets, TLC

\* ------------------------------------------------------------------ bounds
MaxChunks == 2          \* largest total_chunks a client declares
MaxFiles == 2           \* rows of the files table the model lets exist
MaxDownloads == 2       \* downloads counted per file
MaxSessions == 2        \* upload sessions alive at once

\* ------------------------------------------------------- program constants
MAX_FILE_SIZE == 2      \* settings.MAX_FILE_SIZE, scaled
CHUNK_LIMIT == 1        \* settings.CHUNK_SIZE + 1024, scaled
DOWNLOAD_LIMIT == 2     \* User.daily_download_limit default, scaled
STORAGE_LIMIT == 3      \* User.storage_limit default, scaled

Users == {"u1", "u2"}
Uploaders == {"u1"}      \* the users who upload; the others only read
Procs == {"p1", "p2"}
\* filenames a client may send; only the first two have an allowed extension
AllowedFilenames == {"a.txt", "b.txt"}
Bytes == {0, 1}
Anonymous == "anonymous"            \* a request without a valid token
Requesters == Users \cup {Anonymous}
Instants == {0, 1, 2, 3, 25}        \* the clock readings, in hours
\* chunk payloads a client may send: every byte string up to CHUNK_LIMIT and
\* one that is a byte longer
Payloads ==
    UNION {[1..n -> Bytes] : n \in 0..CHUNK_LIMIT}
      \cup {[i \in 1..(CHUNK_LIMIT + 1) |-> 0]}
ChunkNumbers == 0..MaxChunks

VARIABLES
    now,            \* the clock, time.time()
    storage_used,   \* users.storage_used, per user
    files,          \* the files table: file_id -> row
    disk,           \* the final byte store: file_id -> bytes at File.path
    upload_info,    \* temp dir: <<user, upload_id>> -> {upload_id}_info.json
    chunk_files,    \* temp dir: <<user, upload_id, n>> -> {upload_id}_chunk_{n}
    next_file_id,   \* file ids handed out so far (uuid4 never repeats)
    req,            \* the complete_chunked_upload request each task is in
    resp,           \* the last response sent to a client
    rewrites,       \* observer: <<user, upload_id>> -> "same" | "different",
                    \* set once a chunk file the session still holds was
                    \* written over, by the same or by different bytes
    latest,         \* observer: <<user, upload_id, n>> -> the payload of the
                    \* latest accepted submission, while the chunk file exists
    file_cache,     \* file_service.file_cache: file_id -> the cached File object
    daily_downloads_used,   \* users.daily_downloads_used, per user
    daily_download_limit,   \* users.daily_download_limit, per user
    last_download_reset     \* users.last_download_reset, per user

download_vars ==
    <<daily_downloads_used, daily_download_limit, last_download_reset>>

vars == <<now, storage_used, files, disk, upload_info, chunk_files,
          next_file_id, req, resp, rewrites, latest, file_cache, download_vars>>

\* ----------------------------------------------------------------- helpers
Remove(f, keys) == [k \in (DOMAIN f) \ keys |-> f[k]]
Put(f, k, v) == (k :> v) @@ f

RECURSIVE SumOver(_, _)
SumOver(S, g) ==
    IF S = {} THEN 0
    ELSE LET x == CHOOSE y \in S : TRUE IN g[x] + SumOver(S \ {x}, g)

IdleReq == [pc |-> "idle"]

\* the observer keeps a session's entry while any of its chunk files exists
HasChunks(cf, k) == \E c \in DOMAIN cf : c[1] = k[1] /\ c[2] = k[2]
Observed(rw, cf) == [k \in {j \in DOMAIN rw : HasChunks(cf, j)} |-> rw[k]]
Rewritten(rw, cf, u, id, n, data) ==
    IF <<u, id, n>> \notin DOMAIN cf THEN rw
    ELSE IF cf[<<u, id, n>>] # data THEN Put(rw, <<u, id>>, "different")
    ELSE IF <<u, id>> \in DOMAIN rw THEN rw
    ELSE Put(rw, <<u, id>>, "same")
NoResp == [op |-> "none", status |-> 0]

\* ------------------------------------------------------------ db/models.py
check_storage_available(used, file_size) == (used + file_size) <= STORAGE_LIMIT

\* an add_storage_usage that counts the file twice
add_storage_usage_twice(used, file_size) == used + file_size + file_size

add_storage_usage(used, file_size) == used + file_size

Max(a, b) == IF a >= b THEN a ELSE b

remove_storage_usage(used, file_size) == Max(0, used - file_size)

\* -------------------------------------------------------- utils/helpers.py
\* sha256 of "{filename}_{file_size}_{time.time()}": a function of the three
generate_upload_id(filename, file_size, t) == <<filename, file_size, t>>

\* ------------------------------------------------- utils/chunked_upload.py
\* a save_chunk that does not write over a chunk file it finds
save_chunk_keeping(cf, u, id, n, data) ==
    IF <<u, id, n>> \in DOMAIN cf THEN cf ELSE Put(cf, <<u, id, n>>, data)

save_chunk(cf, u, id, n, data) == Put(cf, <<u, id, n>>, data)

save_upload_info(ui, u, id, filename, total_chunks, file_size, t) ==
    Put(ui, <<u, id>>, [filename |-> filename, total_chunks |-> total_chunks,
                        file_size |-> file_size, created_at |-> t])

is_upload_complete(ui, cf, u, id) ==
    /\ <<u, id>> \in DOMAIN ui
    /\ \A i \in 0..(ui[<<u, id>>].total_chunks - 1) : <<u, id, i>> \in DOMAIN cf

\* an assembly that lays the chunks down from the last index to the first
RECURSIVE ConcatFrom_backwards(_, _, _, _, _)
ConcatFrom_backwards(cf, u, id, i, n) ==
    IF i >= n THEN <<>>
    ELSE ConcatFrom_backwards(cf, u, id, i + 1, n) \o cf[<<u, id, i>>]

\* the bytes of chunks i..n-1 of the session, in index order
RECURSIVE ConcatFrom(_, _, _, _, _)
ConcatFrom(cf, u, id, i, n) ==
    IF i >= n THEN <<>>
    ELSE cf[<<u, id, i>>] \o ConcatFrom(cf, u, id, i + 1, n)

\* an assemble_file without the "Verify file size" step
assemble_file_unsized(ui, cf, u, id) ==
    IF <<u, id>> \notin DOMAIN ui THEN [ok |-> FALSE, data |-> <<>>]
    ELSE LET n == ui[<<u, id>>].total_chunks IN
         IF \E i \in 0..(n - 1) : <<u, id, i>> \notin DOMAIN cf
         THEN [ok |-> FALSE, data |-> <<>>]
         ELSE [ok |-> TRUE, data |-> ConcatFrom(cf, u, id, 0, n)]

\* assemble_file: [ok, data]; it fails on missing info, on a missing chunk
\* and when the assembled length differs from the declared file_size
assemble_file(ui, cf, u, id) ==
    IF <<u, id>> \notin DOMAIN ui THEN [ok |-> FALSE, data |-> <<>>]
    ELSE LET n == ui[<<u, id>>].total_chunks IN
         IF \E i \in 0..(n - 1) : <<u, id, i>> \notin DOMAIN cf
         THEN [ok |-> FALSE, data |-> <<>>]
         ELSE LET data == ConcatFrom(cf, u, id, 0, n) IN
              IF Len(data) # ui[<<u, id>>].file_size
              THEN [ok |-> FALSE, data |-> <<>>]
              ELSE [ok |-> TRUE, data |-> data]

\* cleanup_upload removes chunks 0..total_chunks-1 and the info file, and
\* nothing at all when the info file is missing
cleanup_chunks(ui, cf, u, id) ==
    IF <<u, id>> \in DOMAIN ui
    THEN Remove(cf, {<<u, id, i>> : i \in 0..(ui[<<u, id>>].total_chunks - 1)})
    ELSE cf

\* a cleanup that leaves the info file behind
cleanup_info_leaving(ui, u, id) == ui

cleanup_info(ui, u, id) == Remove(ui, {<<u, id>>})

\* check_download_available: a new day resets the counter first; the answer
\* and the fields of the User object after the call
check_download_available(used, limit, reset, t, download_size) ==
    LET new_day == (reset \div 24) < (t \div 24)
        u == IF new_day THEN 0 ELSE used
    IN  [ok |-> (u + download_size) <= limit,
         daily_downloads_used |-> u,
         last_download_reset |-> IF new_day THEN t ELSE reset]

\* add_download_usage: the same reset, then the addition
add_download_usage(used, reset, t, download_size) ==
    LET new_day == (reset \div 24) < (t \div 24)
    IN  [daily_downloads_used |-> (IF new_day THEN 0 ELSE used) + download_size,
         last_download_reset |-> IF new_day THEN t ELSE reset]

\* the expiry test of get_file_path_optimized (hours)
is_expired(file, t) == file.ttl > 0 /\ t > file.upload_time + file.ttl

\* db/models.py File.is_expired: only a ttl of 0 means no expiry
File_is_expired(file, t) ==
    IF file.ttl = 0 THEN FALSE ELSE t > file.upload_time + file.ttl

\* cleanup_expired_files_optimized builds the modifier as f'+{File.ttl} hours':
\* File.ttl there is the mapped column, whose text is "File.ttl", for every row
hours_modifier(ttl) == "+File.ttl hours"

\* SQL datetime(upload_time, modifier): the shifted time for a modifier
\* "+N hours", NULL for any other text
HourModifiers == ("+1 hours" :> 1) @@ ("+2 hours" :> 2)

sql_datetime(upload_time, modifier) ==
    IF modifier \in DOMAIN HourModifiers
    THEN [null |-> FALSE, value |-> upload_time + HourModifiers[modifier]]
    ELSE [null |-> TRUE, value |-> 0]

\* the filter of cleanup_expired_files_optimized; a comparison with NULL
\* selects no row
cleanup_selects(file, t) ==
    /\ file.is_active
    /\ file.ttl > 0
    /\ LET d == sql_datetime(file.upload_time, hours_modifier(file.ttl))
       IN  ~d.null /\ d.value < t

\* ------------------------------------------- services/file_service.py cache
\* a File object put into file_cache with its attributes loaded
cached(row) ==
    [is_active |-> row.is_active, is_public |-> row.is_public,
     owner_id |-> row.owner_id, ttl |-> row.ttl,
     upload_time |-> row.upload_time, loaded |-> TRUE]

\* ------------------------------------------------------------------- Init
Init ==
    /\ now = 0
    /\ storage_used = [u \in Users |-> 0]
    /\ files = <<>>
    /\ disk = <<>>
    /\ upload_info = <<>>
    /\ chunk_files = <<>>
    /\ next_file_id = 0
    /\ req = [p \in Procs |-> IdleReq]
    /\ resp = NoResp
    /\ rewrites = <<>>
    /\ latest = <<>>
    /\ file_cache = <<>>
    /\ daily_downloads_used = [u \in Users |-> 0]
    /\ daily_download_limit = [u \in Users |-> DOWNLOAD_LIMIT]
    /\ last_download_reset = [u \in Users |-> 0]

\* ------------------------------------------- api/routers/files.py handlers
start_chunked_upload(u, filename, file_size, total_chunks) ==
    LET id == generate_upload_id(filename, file_size, now)
        ok == /\ check_storage_available(storage_used[u], file_size)
              /\ file_size <= MAX_FILE_SIZE
              /\ filename \in AllowedFilenames
    IN  /\ \/ <<u, id>> \in DOMAIN upload_info
           \/ Cardinality(DOMAIN upload_info) < MaxSessions
        /\ IF ok
           THEN /\ upload_info' = save_upload_info(upload_info, u, id, filename,
                                                   total_chunks, file_size, now)
                /\ resp' = [op |-> "start", status |-> 200]
           ELSE /\ upload_info' = upload_info
                /\ resp' = [op |-> "start", status |-> 500]
        /\ UNCHANGED <<now, download_vars, file_cache, storage_used, files, disk, chunk_files,
                       next_file_id, req, rewrites, latest>>

upload_chunk(u, id, n, data) ==
    /\ IF Len(data) > CHUNK_LIMIT
       THEN /\ chunk_files' = chunk_files
            /\ rewrites' = rewrites
            /\ latest' = latest
            /\ resp' = [op |-> "chunk", status |-> 500]
       ELSE /\ chunk_files' = save_chunk(chunk_files, u, id, n, data)
            /\ rewrites' = Rewritten(rewrites, chunk_files, u, id, n, data)
            /\ latest' = Put(latest, <<u, id, n>>, data)
            /\ resp' = [op |-> "chunk", status |-> 200,
                        upload_complete |->
                            is_upload_complete(upload_info, chunk_files', u, id)]
    /\ UNCHANGED <<now, download_vars, file_cache, storage_used, files, disk, upload_info,
                   next_file_id, req>>

cancel_chunked_upload(u, id) ==
    /\ chunk_files' = cleanup_chunks(upload_info, chunk_files, u, id)
    /\ upload_info' = cleanup_info(upload_info, u, id)
    /\ rewrites' = Observed(rewrites, chunk_files')
    /\ latest' = cleanup_chunks(upload_info, latest, u, id)
    /\ resp' = [op |-> "cancel", status |-> 200]
    /\ UNCHANGED <<now, download_vars, file_cache, storage_used, files, disk, next_file_id, req>>

\* the request arrives: get_current_user loads the User row into the
\* request's session; the handler later works on that loaded object
CompleteBegin(p, u, id) ==
    /\ req[p].pc = "idle"
    /\ Cardinality(DOMAIN files)
         + Cardinality({q \in Procs : req[q].pc \in {"assemble", "commit"}})
         < MaxFiles
    /\ req' = [req EXCEPT ![p] = [pc |-> "assemble", user |-> u, id |-> id,
                                  loaded_storage_used |-> storage_used[u]]]
    /\ UNCHANGED <<now, download_vars, file_cache, storage_used, files, disk, upload_info, chunk_files,
                   next_file_id, resp, rewrites, latest>>

\* a Complete that does not look for missing chunks and assembles the chunk
\* files it finds
RECURSIVE ConcatPresentFrom(_, _, _, _, _)
ConcatPresentFrom(cf, u, id, i, n) ==
    IF i >= n THEN <<>>
    ELSE (IF <<u, id, i>> \in DOMAIN cf THEN cf[<<u, id, i>>] ELSE <<>>)
         \o ConcatPresentFrom(cf, u, id, i + 1, n)

CompleteAssemble_unchecked(p) ==
    /\ req[p].pc = "assemble"
    /\ <<req[p].user, req[p].id>> \in DOMAIN upload_info
    /\ LET u == req[p].user
           id == req[p].id
           info == upload_info[<<u, id>>]
       IN /\ disk' = Put(disk, next_file_id + 1,
                         ConcatPresentFrom(chunk_files, u, id, 0,
                                           info.total_chunks))
          /\ next_file_id' = next_file_id + 1
          /\ req' = [req EXCEPT ![p] =
                       [pc |-> "commit", user |-> u, id |-> id,
                        loaded_storage_used |-> req[p].loaded_storage_used,
                        file_id |-> next_file_id + 1,
                        file_size |-> info.file_size,
                        rewritten |-> "none"]]
    /\ UNCHANGED <<now, download_vars, file_cache, storage_used, files, upload_info, chunk_files, resp,
                   rewrites, latest>>

\* files.py:205-233 and, when anything raises, the handler at 283-304
CompleteAssemble(p) ==
    /\ req[p].pc = "assemble"
    /\ LET u == req[p].user
           id == req[p].id
           asm == assemble_file(upload_info, chunk_files, u, id)
       IN IF is_upload_complete(upload_info, chunk_files, u, id) /\ asm.ok
          THEN /\ disk' = Put(disk, next_file_id + 1, asm.data)
               /\ next_file_id' = next_file_id + 1
               /\ req' = [req EXCEPT ![p] =
                            [pc |-> "commit", user |-> u, id |-> id,
                             loaded_storage_used |-> req[p].loaded_storage_used,
                             file_id |-> next_file_id + 1,
                             file_size |-> upload_info[<<u, id>>].file_size,
                             rewritten |-> IF <<u, id>> \in DOMAIN rewrites
                                           THEN rewrites[<<u, id>>]
                                           ELSE "none"]]
               /\ UNCHANGED <<upload_info, chunk_files, resp, rewrites, latest>>
          ELSE /\ chunk_files' = cleanup_chunks(upload_info, chunk_files, u, id)
               /\ upload_info' = cleanup_info(upload_info, u, id)
               /\ rewrites' = Observed(rewrites, chunk_files')
               /\ latest' = cleanup_chunks(upload_info, latest, u, id)
               /\ req' = [req EXCEPT ![p] = IdleReq]
               /\ resp' = [op |-> "complete", status |-> 500,
                           detail |-> IF is_upload_complete(upload_info,
                                                            chunk_files, u, id)
                                      THEN "Assembly failed"
                                      ELSE "Upload not complete",
                           had_info |-> <<u, id>> \in DOMAIN upload_info]
               /\ UNCHANGED <<disk, next_file_id>>
    /\ UNCHANGED <<now, download_vars, file_cache, storage_used, files>>

\* files.py:247-281: the row is added and the loaded User object updated
CompleteCommit(p) ==
    /\ req[p].pc = "commit"
    /\ LET u == req[p].user IN
       /\ files' = Put(files, req[p].file_id,
                       [owner_id |-> u, file_size |-> req[p].file_size,
                        is_active |-> TRUE, is_public |-> FALSE, ttl |-> 0,
                        upload_time |-> now, download_count |-> 0,
                        upload_id |-> req[p].id])
       /\ storage_used' = [storage_used EXCEPT ![u] =
              add_storage_usage(req[p].loaded_storage_used, req[p].file_size)]
       /\ req' = [req EXCEPT ![p].pc = "cleanup"]
       /\ resp' = [op |-> "complete", status |-> 200]
    /\ UNCHANGED <<now, download_vars, file_cache, disk, upload_info, chunk_files, next_file_id,
                   rewrites, latest>>

\* a failing handler that leaves the moved file where it is
CompleteCommitFails_keeping(p) ==
    /\ req[p].pc = "commit"
    /\ chunk_files' = cleanup_chunks(upload_info, chunk_files,
                                     req[p].user, req[p].id)
    /\ upload_info' = cleanup_info(upload_info, req[p].user, req[p].id)
    /\ rewrites' = Observed(rewrites, chunk_files')
    /\ latest' = cleanup_chunks(upload_info, latest, req[p].user, req[p].id)
    /\ req' = [req EXCEPT ![p] = IdleReq]
    /\ resp' = [op |-> "complete", status |-> 500,
                detail |-> "Database error",
                had_info |-> <<req[p].user, req[p].id>> \in DOMAIN upload_info]
    /\ UNCHANGED <<now, download_vars, file_cache, storage_used, files, disk,
                   next_file_id>>

\* files.py:247-260 raising (the database refuses the row or the commit) and
\* the handler at 283-304: the moved file is removed, the session cleaned up,
\* the row and the counter of the request's database session are dropped
CompleteCommitFails(p) ==
    /\ req[p].pc = "commit"
    /\ disk' = Remove(disk, {req[p].file_id})
    /\ chunk_files' = cleanup_chunks(upload_info, chunk_files,
                                     req[p].user, req[p].id)
    /\ upload_info' = cleanup_info(upload_info, req[p].user, req[p].id)
    /\ rewrites' = Observed(rewrites, chunk_files')
    /\ latest' = cleanup_chunks(upload_info, latest, req[p].user, req[p].id)
    /\ req' = [req EXCEPT ![p] = IdleReq]
    /\ resp' = [op |-> "complete", status |-> 500,
                detail |-> "Database error",
                had_info |-> <<req[p].user, req[p].id>> \in DOMAIN upload_info]
    /\ UNCHANGED <<now, download_vars, file_cache, storage_used, files,
                   next_file_id>>

\* the background task of files.py:270
CompleteCleanup(p) ==
    /\ req[p].pc = "cleanup"
    /\ chunk_files' = cleanup_chunks(upload_info, chunk_files,
                                     req[p].user, req[p].id)
    /\ upload_info' = cleanup_info(upload_info, req[p].user, req[p].id)
    /\ rewrites' = Observed(rewrites, chunk_files')
    /\ latest' = cleanup_chunks(upload_info, latest, req[p].user, req[p].id)
    /\ req' = [req EXCEPT ![p] = IdleReq]
    /\ UNCHANGED <<now, download_vars, file_cache, storage_used, files, disk, next_file_id, resp>>

\* ---------------------------------------- Complete and chunk writes, step
\* by step: save_chunk runs in a thread of the executor (files.py:170-173)
\* while assemble_file runs on the event loop, so the file operations of the
\* two interleave
\* the bytes of the session's chunk files 0..n-1 as they stand
RECURSIVE SessionBytes(_, _, _, _)
SessionBytes(cf, u, id, n) ==
    IF n = 0 THEN <<>>
    ELSE SessionBytes(cf, u, id, n - 1)
         \o (IF <<u, id, n - 1>> \in DOMAIN cf THEN cf[<<u, id, n - 1>>]
             ELSE <<>>)

\* the observer: every request that is reading chunks notes the bytes the
\* session holds at this instant
Seen(rq, cf) ==
    [q \in DOMAIN rq |->
        IF rq[q].pc = "reading"
        THEN [rq[q] EXCEPT !.snaps = @ \cup
                 {SessionBytes(cf, rq[q].user, rq[q].id, rq[q].total_chunks)}]
        ELSE rq[q]]

\* upload_chunk up to open(chunk_path, 'wb') of save_chunk: the size test,
\* then the chunk file is created or truncated
upload_chunk_open(w, u, id, n, data) ==
    /\ req[w].pc = "idle"
    /\ IF Len(data) > CHUNK_LIMIT
       THEN /\ resp' = [op |-> "chunk", status |-> 500]
            /\ UNCHANGED <<chunk_files, req>>
       ELSE /\ chunk_files' = save_chunk(chunk_files, u, id, n, <<>>)
            /\ req' = Seen([req EXCEPT ![w] =
                              [pc |-> "writing", user |-> u, id |-> id,
                               n |-> n, data |-> data]], chunk_files')
            /\ resp' = resp
    /\ UNCHANGED <<now, download_vars, file_cache, storage_used, files, disk,
                   upload_info, next_file_id, rewrites, latest>>

\* f.write(chunk_data) and the close of save_chunk, then the answer of
\* upload_chunk; bytes written to a chunk file that was removed meanwhile are
\* lost with it
upload_chunk_write(w) ==
    /\ req[w].pc = "writing"
    /\ LET k == <<req[w].user, req[w].id, req[w].n>> IN
       /\ chunk_files' = IF k \in DOMAIN chunk_files
                         THEN save_chunk(chunk_files, k[1], k[2], k[3],
                                         req[w].data)
                         ELSE chunk_files
       /\ resp' = [op |-> "chunk", status |-> 200,
                   upload_complete |->
                       is_upload_complete(upload_info, chunk_files', k[1], k[2])]
    /\ req' = Seen([req EXCEPT ![w] = IdleReq], chunk_files')
    /\ UNCHANGED <<now, download_vars, file_cache, storage_used, files, disk,
                   upload_info, next_file_id, rewrites, latest>>

\* the failure of a Complete while it assembles: the handler at
\* files.py:283-304
assemble_file_fails(p, detail) ==
    LET u == req[p].user
        id == req[p].id
    IN  /\ chunk_files' = cleanup_chunks(upload_info, chunk_files, u, id)
        /\ upload_info' = cleanup_info(upload_info, u, id)
        /\ rewrites' = Observed(rewrites, chunk_files')
        /\ latest' = cleanup_chunks(upload_info, latest, u, id)
        /\ req' = Seen([req EXCEPT ![p] = IdleReq], chunk_files')
        /\ resp' = [op |-> "complete", status |-> 500, detail |-> detail,
                    had_info |-> <<u, id>> \in DOMAIN upload_info]
        /\ UNCHANGED <<disk, next_file_id>>

\* files.py:205-215 and chunked_upload.py:97-110: is_upload_complete,
\* get_upload_info, the assembled file is opened
assemble_file_open(p) ==
    /\ req[p].pc = "assemble"
    /\ LET u == req[p].user
           id == req[p].id
       IN IF is_upload_complete(upload_info, chunk_files, u, id)
          THEN /\ req' = [req EXCEPT ![p] =
                            [pc |-> "reading", user |-> u, id |-> id,
                             loaded_storage_used |-> req[p].loaded_storage_used,
                             total_chunks |-> upload_info[<<u, id>>].total_chunks,
                             file_size |-> upload_info[<<u, id>>].file_size,
                             i |-> 0, acc |-> <<>>,
                             snaps |-> {SessionBytes(chunk_files, u, id,
                                          upload_info[<<u, id>>].total_chunks)}]]
               /\ UNCHANGED <<chunk_files, upload_info, rewrites, latest, resp,
                              disk, next_file_id>>
          ELSE assemble_file_fails(p, "Upload not complete")
    /\ UNCHANGED <<now, download_vars, file_cache, storage_used, files>>

\* chunked_upload.py:111-119: one turn of the loop, chunk i is read and
\* appended
assemble_file_read(p) ==
    /\ req[p].pc = "reading"
    /\ req[p].i < req[p].total_chunks
    /\ LET k == <<req[p].user, req[p].id, req[p].i>> IN
       IF k \in DOMAIN chunk_files
       THEN /\ req' = [req EXCEPT ![p].acc = @ \o chunk_files[k],
                                  ![p].i = @ + 1]
            /\ UNCHANGED <<chunk_files, upload_info, rewrites, latest, resp,
                           disk, next_file_id>>
       ELSE assemble_file_fails(p, "Assembly failed")
    /\ UNCHANGED <<now, download_vars, file_cache, storage_used, files>>

\* chunked_upload.py:121-126 and files.py:220-233: the size is verified and
\* the assembled file moved to its final place
assemble_file_close(p) ==
    /\ req[p].pc = "reading"
    /\ req[p].i = req[p].total_chunks
    /\ IF Len(req[p].acc) = req[p].file_size
       THEN /\ disk' = Put(disk, next_file_id + 1, req[p].acc)
            /\ next_file_id' = next_file_id + 1
            /\ req' = [req EXCEPT ![p] =
                         [pc |-> "commit", user |-> req[p].user,
                          id |-> req[p].id,
                          loaded_storage_used |-> req[p].loaded_storage_used,
                          file_id |-> next_file_id + 1,
                          file_size |-> req[p].file_size,
                          rewritten |-> "none",
                          snaps |-> req[p].snaps]]
            /\ UNCHANGED <<chunk_files, upload_info, rewrites, latest, resp>>
       ELSE assemble_file_fails(p, "Assembly failed")
    /\ UNCHANGED <<now, download_vars, file_cache, storage_used, files>>

\* services/file_service.py save_file_ultra_fast, behind POST /upload-api
\* (files.py:57-103): the row is written; the storage counter is not read
\* and not changed
upload_file_api(u, filename, content, ttl, is_public) ==
    LET file_size == Len(content)
        fid == next_file_id + 1
    IN  /\ Cardinality(DOMAIN files)
             + Cardinality({q \in Procs : req[q].pc \in {"assemble", "commit"}})
             < MaxFiles
        /\ IF file_size > MAX_FILE_SIZE
           THEN /\ resp' = [op |-> "upload", status |-> 413]
                /\ UNCHANGED <<files, disk, next_file_id, file_cache>>
           ELSE IF filename \notin AllowedFilenames
           THEN /\ resp' = [op |-> "upload", status |-> 400]
                /\ UNCHANGED <<files, disk, next_file_id, file_cache>>
           ELSE /\ next_file_id' = fid
                /\ disk' = Put(disk, fid, content)
                /\ files' = Put(files, fid,
                       [owner_id |-> u, file_size |-> file_size,
                        is_active |-> TRUE, is_public |-> is_public,
                        ttl |-> ttl, upload_time |-> now,
                        download_count |-> 0, upload_id |-> <<>>])
                /\ file_cache' = Put(file_cache, fid, cached(files'[fid]))
                /\ resp' = [op |-> "upload", status |-> 200]
        /\ UNCHANGED <<now, download_vars, storage_used, upload_info,
                       chunk_files, req, rewrites, latest>>

\* POST /delete/{file_id} (files.py:354-384). file_service.delete_file is
\* the coroutine function delete_file_optimized and the handler calls it
\* without `await`: the call builds a coroutine object and runs none of its
\* body, so no row changes; the handler then redirects to /files.
delete_file(u, file_id) ==
    /\ resp' = [op |-> "delete_file", status |-> 302, user |-> u,
                file_id |-> file_id]
    /\ UNCHANGED <<now, download_vars, file_cache, storage_used, files, disk, upload_info, chunk_files,
                   next_file_id, req, rewrites, latest>>

\* DELETE /api/delete/{file_id} (files.py:386-406): the same call without
\* `await`; JSONResponse(result) then raises TypeError on the coroutine
\* object, which the handler's `except Exception` turns into a 500.
delete_file_api(u, file_id) ==
    /\ resp' = [op |-> "delete_file_api", status |-> 500, user |-> u,
                file_id |-> file_id]
    /\ UNCHANGED <<now, download_vars, file_cache, storage_used, files, disk, upload_info, chunk_files,
                   next_file_id, req, rewrites, latest>>

\* POST /delete-all (files.py:478-527), its background removals included
delete_all_files(u) ==
    LET mine == {f \in DOMAIN files :
                    files[f].owner_id = u /\ files[f].is_active}
    IN  /\ IF mine = {}
           THEN /\ resp' = [op |-> "delete_all", status |-> 404, user |-> u]
                /\ UNCHANGED <<files, disk>>
           ELSE /\ files' = [f \in DOMAIN files |->
                               IF f \in mine
                               THEN [files[f] EXCEPT !.is_active = FALSE]
                               ELSE files[f]]
                /\ disk' = Remove(disk, mine)
                /\ resp' = [op |-> "delete_all", status |-> 200, user |-> u]
        /\ UNCHANGED <<now, download_vars, file_cache, storage_used, upload_info, chunk_files,
                       next_file_id, req, rewrites, latest>>

\* an admin delete that flips the flag instead of clearing it
admin_delete_file_flipping(file_id) ==
    /\ IF file_id \notin DOMAIN files
       THEN /\ resp' = [op |-> "admin_delete", status |-> 404,
                        file_id |-> file_id]
            /\ files' = files
       ELSE /\ files' = [files EXCEPT ![file_id].is_active = ~@]
            /\ resp' = [op |-> "admin_delete", status |-> 200,
                        file_id |-> file_id]
    /\ UNCHANGED <<now, download_vars, file_cache, storage_used, disk, upload_info, chunk_files,
                   next_file_id, req, rewrites, latest>>

\* DELETE /files/{file_id} of AdminViews.py:189-215 and
\* POST /admin/files/{file_id}/delete of admin.py:146-163
admin_delete_file(file_id) ==
    /\ IF file_id \notin DOMAIN files
       THEN /\ resp' = [op |-> "admin_delete", status |-> 404,
                        file_id |-> file_id]
            /\ files' = files
       ELSE /\ files' = [files EXCEPT ![file_id].is_active = FALSE]
            /\ resp' = [op |-> "admin_delete", status |-> 200,
                        file_id |-> file_id]
    /\ UNCHANGED <<now, download_vars, file_cache, storage_used, disk, upload_info, chunk_files,
                   next_file_id, req, rewrites, latest>>

\* services/admin_service.py AdminService.delete_file
AdminService_delete_file(file_id) ==
    /\ IF file_id \notin DOMAIN files
       THEN /\ resp' = [op |-> "admin_service_delete", status |-> 404,
                        file_id |-> file_id]
            /\ UNCHANGED <<files, storage_used>>
       ELSE LET u == files[file_id].owner_id IN
            /\ files' = [files EXCEPT ![file_id].is_active = FALSE]
            /\ storage_used' = [storage_used EXCEPT ![u] =
                   remove_storage_usage(storage_used[u],
                                        files[file_id].file_size)]
            /\ resp' = [op |-> "admin_service_delete", status |-> 200,
                        file_id |-> file_id]
    /\ UNCHANGED <<now, download_vars, file_cache, disk, upload_info, chunk_files, next_file_id, req,
                   rewrites, latest>>

\* ------------------------------------------------------------- read paths
\* get_file_path_optimized, "Auto-cleanup expired file": the commit that
\* follows file.is_active = False, when the File object belongs to the session
expire_on_read_lazy(fs, f) == fs

expire_on_read(fs, f) == [fs EXCEPT ![f].is_active = FALSE]

\* the permission test of get_file_info_cached
access_denied(file, r) ==
    ~file.is_public /\ (r = Anonymous \/ file.owner_id # r)

\* get_file_info_cached: the status, the cache afterwards and where the File
\* object came from. A cached object whose attributes were expired by a
\* commit before its session closed cannot be read (DetachedInstanceError).
get_file_info_cached(fc, fs, f, r) ==
    IF f \in DOMAIN fc /\ ~fc[f].loaded
    THEN [status |-> 500, cache |-> fc, source |-> "cache"]
    ELSE IF f \in DOMAIN fc /\ fc[f].is_active
    THEN [status |-> IF access_denied(fc[f], r) THEN 403 ELSE 200,
          cache |-> fc, source |-> "cache"]
    ELSE IF f \notin DOMAIN fs \/ ~fs[f].is_active
    THEN [status |-> 404, cache |-> fc, source |-> "db"]
    ELSE IF access_denied(fs[f], r)
    THEN [status |-> 403, cache |-> fc, source |-> "db"]
    ELSE [status |-> 200, cache |-> Put(fc, f, cached(fs[f])), source |-> "db"]

ReadReply(op, status, r, f) ==
    [op |-> op, status |-> status, user |-> r, file_id |-> f]

\* GET /download/{file_id} with a reservation before the file is sent, charged
\* to the signed-in reader whoever it is
download_file_charging(r, f) ==
    /\ r \in Users
    /\ f \in DOMAIN files /\ files[f].is_active /\ f \in DOMAIN disk
    /\ ~access_denied(files[f], r) /\ ~is_expired(files[f], now)
    /\ files[f].download_count < MaxDownloads
    /\ LET c == check_download_available(daily_downloads_used[r],
                     daily_download_limit[r], last_download_reset[r], now,
                     files[f].file_size)
       IN  /\ c.ok
           /\ daily_downloads_used' = [daily_downloads_used EXCEPT
                   ![r] = c.daily_downloads_used + files[f].file_size]
           /\ last_download_reset' = [last_download_reset EXCEPT
                   ![r] = c.last_download_reset]
    /\ resp' = ReadReply("download", 200, r, f)
    /\ files' = [files EXCEPT ![f].download_count = @ + 1]
    /\ UNCHANGED <<now, daily_download_limit, file_cache, storage_used, disk,
                   upload_info, chunk_files, next_file_id, req, rewrites,
                   latest>>

\* GET /download/{file_id} (files.py:321-352) with get_file_path_optimized
download_file(r, f) ==
    /\ f \in DOMAIN files => files[f].download_count < MaxDownloads
    /\ IF f \notin DOMAIN files \/ ~files[f].is_active
       THEN /\ resp' = ReadReply("download", 404, r, f)
            /\ UNCHANGED <<files, file_cache>>
       ELSE IF ~files[f].is_public /\ r = Anonymous
       THEN /\ resp' = ReadReply("download", 401, r, f)
            /\ UNCHANGED <<files, file_cache>>
       ELSE IF ~files[f].is_public /\ files[f].owner_id # r
       THEN /\ resp' = ReadReply("download", 403, r, f)
            /\ UNCHANGED <<files, file_cache>>
       ELSE LET info == get_file_info_cached(file_cache, files, f, r) IN
            IF info.status # 200
            THEN /\ resp' = ReadReply("download", info.status, r, f)
                 /\ file_cache' = info.cache
                 /\ files' = files
            ELSE IF is_expired(info.cache[f], now)
            THEN /\ resp' = ReadReply("download", 410, r, f)
                 /\ IF info.source = "db"
                    THEN /\ files' = expire_on_read(files, f)
                         /\ file_cache' = [info.cache EXCEPT
                                             ![f].is_active = FALSE,
                                             ![f].loaded = FALSE]
                    ELSE /\ files' = files
                         /\ file_cache' = [info.cache EXCEPT
                                             ![f].is_active = FALSE]
            ELSE IF f \notin DOMAIN disk
            THEN /\ resp' = ReadReply("download", 404, r, f)
                 /\ file_cache' = info.cache
                 /\ files' = files
            ELSE /\ resp' = ReadReply("download", 200, r, f)
                 /\ files' = [files EXCEPT ![f].download_count = @ + 1]
                 /\ file_cache' = info.cache
    /\ UNCHANGED <<now, download_vars, storage_used, disk, upload_info,
                   chunk_files, next_file_id, req, rewrites, latest>>

\* The download route is a sync handler: it runs in a worker thread with a
\* database session of its own, and several run at a time. The File object
\* that get_file_info_cached loads on a cache miss belongs to the session of
\* the request that loaded it, and file_cache hands the same object to every
\* other request until that session closes.
loaded_by(row, p) ==
    cached(row) @@ [download_count |-> row.download_count, session |-> p,
                    dirty |-> FALSE, expired |-> FALSE]

InSession(fc, f, p) ==
    f \in DOMAIN fc /\ "session" \in DOMAIN fc[f] /\ fc[f].session = p

\* files.py:329-346 and file_service.py:330-345: the route's own checks,
\* get_file_info_cached, the expiry test and the test for the file on disk
download_file_open(p, r, f) ==
    /\ req[p].pc = "idle"
    /\ f \in DOMAIN files => files[f].download_count < MaxDownloads
    /\ IF f \notin DOMAIN files \/ ~files[f].is_active
       THEN /\ resp' = ReadReply("download", 404, r, f)
            /\ UNCHANGED <<files, file_cache, req>>
       ELSE IF ~files[f].is_public /\ r = Anonymous
       THEN /\ resp' = ReadReply("download", 401, r, f)
            /\ UNCHANGED <<files, file_cache, req>>
       ELSE IF ~files[f].is_public /\ files[f].owner_id # r
       THEN /\ resp' = ReadReply("download", 403, r, f)
            /\ UNCHANGED <<files, file_cache, req>>
       ELSE LET info == get_file_info_cached(file_cache, files, f, r) IN
            IF info.status # 200
            THEN /\ resp' = ReadReply("download", info.status, r, f)
                 /\ file_cache' = info.cache
                 /\ UNCHANGED <<files, req>>
            ELSE IF is_expired(info.cache[f], now)
            THEN /\ resp' = ReadReply("download", 410, r, f)
                 /\ files' = IF info.source = "db" THEN expire_on_read(files, f)
                                                   ELSE files
                 /\ file_cache' = [info.cache EXCEPT
                                     ![f].is_active = FALSE,
                                     ![f].loaded = (info.source # "db")]
                 /\ req' = req
            ELSE IF f \notin DOMAIN disk
            THEN /\ resp' = ReadReply("download", 404, r, f)
                 /\ file_cache' = info.cache
                 /\ UNCHANGED <<files, req>>
            ELSE /\ req' = [req EXCEPT ![p] = [pc |-> "update", user |-> r,
                                               file_id |-> f]]
                 /\ file_cache' = IF info.source = "db"
                                  THEN Put(file_cache, f, loaded_by(files[f], p))
                                  ELSE file_cache
                 /\ UNCHANGED <<files, resp>>
    /\ UNCHANGED <<now, download_vars, storage_used, disk, upload_info,
                   chunk_files, next_file_id, rewrites, latest>>

\* file_service.py:347-349, UPDATE ... SET download_count = download_count + 1:
\* the statement waits for the row while another transaction that updated it
\* has not committed. The update is then applied to the objects of this
\* session: an unmodified download_count is evaluated, a modified one is
\* expired
download_file_update(p) ==
    /\ req[p].pc = "update"
    /\ LET f == req[p].file_id IN
       /\ ~\E q \in Procs : req[q].pc = "commit" /\ req[q].file_id = f
       /\ files' = [files EXCEPT ![f].download_count = @ + 1]
       /\ file_cache' =
            IF ~InSession(file_cache, f, p) THEN file_cache
            ELSE IF file_cache[f].dirty
            THEN [file_cache EXCEPT ![f].expired = TRUE, ![f].dirty = FALSE]
            ELSE IF file_cache[f].expired THEN file_cache
            ELSE [file_cache EXCEPT ![f].download_count = @ + 1]
    /\ req' = [req EXCEPT ![p].pc = "commit"]
    /\ UNCHANGED <<now, download_vars, storage_used, disk, upload_info,
                   chunk_files, next_file_id, resp, rewrites, latest>>

\* file_service.py:350, db.commit(): the session writes the modified
\* attributes of its objects to their rows, commits, and expires its objects
download_file_commit(p) ==
    /\ req[p].pc = "commit"
    /\ LET f == req[p].file_id IN
       IF InSession(file_cache, f, p)
       THEN /\ files' = IF file_cache[f].dirty
                        THEN [files EXCEPT ![f].download_count =
                                               file_cache[f].download_count]
                        ELSE files
            /\ file_cache' = [file_cache EXCEPT ![f].expired = TRUE,
                                                ![f].dirty = FALSE]
       ELSE UNCHANGED <<files, file_cache>>
    /\ req' = [req EXCEPT ![p].pc = "count"]
    /\ UNCHANGED <<now, download_vars, storage_used, disk, upload_info,
                   chunk_files, next_file_id, resp, rewrites, latest>>

\* file_service.py:352-357 and files.py:348-352: file.download_count += 1 on
\* the object from the cache (an expired attribute is loaded through the
\* object's session first), the FileResponse, and the end of the request,
\* where get_db closes the session and the object stays in the cache
download_file_return(p) ==
    /\ req[p].pc = "count"
    /\ LET f == req[p].file_id
           x == file_cache[f]
       IN  IF "session" \notin DOMAIN x
           THEN file_cache' = file_cache
           ELSE LET v == IF x.expired THEN files[f].download_count
                                      ELSE x.download_count
                IN  file_cache' = [file_cache EXCEPT ![f] =
                        [x EXCEPT !.download_count = v + 1,
                                  !.expired = FALSE,
                                  !.dirty = (x.session \notin {p, "none"}),
                                  !.session = IF x.session = p THEN "none"
                                                               ELSE @]]
    /\ resp' = ReadReply("download", 200, req[p].user, req[p].file_id)
    /\ req' = [req EXCEPT ![p] = IdleReq]
    /\ UNCHANGED <<now, download_vars, storage_used, files, disk, upload_info,
                   chunk_files, next_file_id, rewrites, latest>>

\* GET /api/preview/{file_id} and GET /preview/{file_id} (files.py:441-476)
\* with get_file_preview_optimized: the File object's metadata is returned
get_file_preview(r, f) ==
    LET info == get_file_info_cached(file_cache, files, f, r) IN
    /\ resp' = ReadReply("preview", info.status, r, f)
    /\ file_cache' = info.cache
    /\ UNCHANGED <<now, download_vars, storage_used, files, disk, upload_info,
                   chunk_files, next_file_id, req, rewrites, latest>>

\* a toggle that also rewrites the size of the row
toggle_file_privacy_resizing(u, f) ==
    /\ IF f \in DOMAIN files /\ files[f].owner_id = u /\ files[f].is_active
       THEN /\ files' = [files EXCEPT ![f].is_public = ~@, ![f].file_size = 0]
            /\ resp' = ReadReply("toggle", 302, u, f)
       ELSE /\ files' = files
            /\ resp' = ReadReply("toggle", 404, u, f)
    /\ UNCHANGED <<now, download_vars, file_cache, storage_used, disk,
                   upload_info, chunk_files, next_file_id, req, rewrites,
                   latest>>

\* POST /toggle-privacy/{file_id} (files.py:408-439): the row is changed and
\* the cache is left as it is
toggle_file_privacy(u, f) ==
    /\ IF f \in DOMAIN files /\ files[f].owner_id = u /\ files[f].is_active
       THEN /\ files' = [files EXCEPT ![f].is_public = ~@]
            /\ resp' = ReadReply("toggle", 302, u, f)
       ELSE /\ files' = files
            /\ resp' = ReadReply("toggle", 404, u, f)
    /\ UNCHANGED <<now, download_vars, file_cache, storage_used, disk,
                   upload_info, chunk_files, next_file_id, req, rewrites,
                   latest>>

\* services/file_service.py cleanup_expired_files_optimized, the removal of
\* the physical files it schedules included
cleanup_expired_files ==
    LET expired == {f \in DOMAIN files : cleanup_selects(files[f], now)}
    IN  /\ files' = [f \in DOMAIN files |->
                        IF f \in expired
                        THEN [files[f] EXCEPT !.is_active = FALSE]
                        ELSE files[f]]
        /\ file_cache' = Remove(file_cache, expired)
        /\ disk' = Remove(disk, expired)
        /\ resp' = [op |-> "cleanup_expired", status |-> 200,
                    expired_count |-> Cardinality(expired)]
        /\ UNCHANGED <<now, download_vars, storage_used, upload_info,
                       chunk_files, next_file_id, req, rewrites, latest>>

\* GET /api/user-files (files.py:538-660): for each active file of the
\* caller the listing reports file.is_expired()
get_user_files_api(u) ==
    /\ resp' = [op |-> "list", status |-> 200, user |-> u,
                is_expired |->
                    [f \in {g \in DOMAIN files : /\ files[g].owner_id = u
                                                 /\ files[g].is_active}
                       |-> File_is_expired(files[f], now)]]
    /\ UNCHANGED <<now, download_vars, file_cache, storage_used, files, disk,
                   upload_info, chunk_files, next_file_id, req, rewrites,
                   latest>>

\* services/admin_service.py AdminService.update_user_limits, download limit
update_user_limits(u, download_limit) ==
    /\ daily_download_limit' = [daily_download_limit EXCEPT ![u] = download_limit]
    /\ resp' = [op |-> "limits", status |-> 200]
    /\ UNCHANGED <<now, daily_downloads_used, last_download_reset, file_cache,
                   storage_used, files, disk, upload_info, chunk_files,
                   next_file_id, req, rewrites, latest>>

\* the clock moves on by an hour or more; the cache keeps an entry for 300 s
Tick(t) ==
    /\ t > now
    /\ now' = t
    /\ file_cache' = <<>>
    /\ UNCHANGED <<download_vars, storage_used, files, disk, upload_info,
                   chunk_files, next_file_id, req, resp, rewrites, latest>>

\* ------------------------------------------------------------ specifications
\* Assembly: one session id and one request at a time, every payload and
\* every chunk number
AsmId == generate_upload_id("a.txt", MAX_FILE_SIZE, 0)

Next ==
    \/ \E u \in Uploaders, f \in {"a.txt", "c.bad"},
          s \in {MAX_FILE_SIZE, MAX_FILE_SIZE + 1}, n \in 1..MaxChunks :
           start_chunked_upload(u, f, s, n)
    \/ \E u \in Uploaders, n \in ChunkNumbers, d \in Payloads :
           upload_chunk(u, AsmId, n, d)
    \/ \E u \in Uploaders : cancel_chunked_upload(u, AsmId)
    \/ \E u \in Uploaders : CompleteBegin("p1", u, AsmId)
    \/ CompleteAssemble("p1")
    \/ CompleteCommit("p1")
    \/ CompleteCleanup("p1")

Spec == Init /\ [][Next]_vars

\* Quota: two sessions of one owner, each of MAX_FILE_SIZE, completed by
\* two concurrent requests; the payloads are all the same byte
QuotaIds == {generate_upload_id(f, MAX_FILE_SIZE, 0) : f \in AllowedFilenames}

NextQuota ==
    \/ \E u \in Uploaders, f \in AllowedFilenames :
           start_chunked_upload(u, f, MAX_FILE_SIZE, MAX_FILE_SIZE)
    \/ \E u \in Uploaders, id \in QuotaIds, n \in 0..(MAX_FILE_SIZE - 1) :
           upload_chunk(u, id, n, <<0>>)
    \/ \E p \in Procs, u \in Uploaders, id \in QuotaIds : CompleteBegin(p, u, id)
    \/ \E p \in Procs : CompleteAssemble(p)
    \/ \E p \in Procs : CompleteCommit(p)
    \/ \E p \in Procs : CompleteCleanup(p)

SpecQuota == Init /\ [][NextQuota]_vars

\* Files: single-shot uploads, one small chunked upload, and every delete
FilesId == generate_upload_id("a.txt", 1, 0)
FileIds == 1..MaxFiles

NextFiles ==
    \/ \E u \in Uploaders, c \in {<<0>>, <<0, 0>>, <<0, 0, 0>>} :
           upload_file_api(u, "a.txt", c, 0, FALSE)
    \/ \E u \in Uploaders : start_chunked_upload(u, "a.txt", 1, 1)
    \/ \E u \in Uploaders : upload_chunk(u, FilesId, 0, <<0>>)
    \/ \E u \in Uploaders : CompleteBegin("p1", u, FilesId)
    \/ CompleteAssemble("p1")
    \/ CompleteCommit("p1")
    \/ CompleteCleanup("p1")
    \/ \E u \in Uploaders, f \in FileIds : delete_file(u, f)
    \/ \E u \in Uploaders, f \in FileIds : delete_file_api(u, f)
    \/ \E u \in Uploaders : delete_all_files(u)
    \/ \E f \in FileIds : admin_delete_file(f)
    \/ \E f \in FileIds : AdminService_delete_file(f)

SpecFiles == Init /\ [][NextFiles]_vars

\* one session, two requests at a time, a database that may refuse the commit
NextSession ==
    \/ \E u \in Uploaders :
           start_chunked_upload(u, "a.txt", MAX_FILE_SIZE, MAX_FILE_SIZE)
    \/ \E u \in Uploaders, n \in 0..(MAX_FILE_SIZE - 1), d \in {<<>>, <<0>>} :
           upload_chunk(u, AsmId, n, d)
    \/ \E u \in Uploaders : cancel_chunked_upload(u, AsmId)
    \/ \E p \in Procs, u \in Uploaders :
           next_file_id < MaxFiles /\ CompleteBegin(p, u, AsmId)
    \/ \E p \in Procs : CompleteAssemble(p)
    \/ \E p \in Procs : CompleteCommit(p)
    \/ \E p \in Procs : CompleteCommitFails(p)
    \/ \E p \in Procs : CompleteCleanup(p)

SpecSession == Init /\ [][NextSession]_vars

\* Abandoned sessions: clients start sessions and send chunks, nobody
\* completes or cancels, the clock keeps moving
AbandonIds == {generate_upload_id("a.txt", MAX_FILE_SIZE, t) : t \in Instants}

NextAbandon ==
    \/ \E u \in Uploaders, n \in 1..MaxChunks :
           start_chunked_upload(u, "a.txt", MAX_FILE_SIZE, n)
    \/ \E u \in Uploaders, id \in AbandonIds, n \in 0..(MaxChunks - 1) :
           <<u, id>> \in DOMAIN upload_info /\ upload_chunk(u, id, n, <<0>>)
    \/ \E t \in Instants : Tick(t)

SpecAbandon ==
    Init /\ [][NextAbandon]_vars /\ WF_vars(\E t \in Instants : Tick(t))

\* A Complete on the event loop and chunk writes in the executor: one
\* session, request p1 completes, request p2 writes chunks
NextOverlap ==
    \/ \E u \in Uploaders :
           start_chunked_upload(u, "a.txt", MAX_FILE_SIZE, MAX_FILE_SIZE)
    \/ \E u \in Uploaders, n \in 0..(MAX_FILE_SIZE - 1), d \in Payloads :
           upload_chunk_open("p2", u, AsmId, n, d)
    \/ upload_chunk_write("p2")
    \/ \E u \in Uploaders :
           next_file_id < MaxFiles /\ CompleteBegin("p1", u, AsmId)
    \/ assemble_file_open("p1")
    \/ assemble_file_read("p1")
    \/ assemble_file_close("p1")
    \/ CompleteCommit("p1")
    \/ CompleteCleanup("p1")

SpecOverlap == Init /\ [][NextOverlap]_vars

\* the file the read and life specifications follow
ReadId == 1

\* The life of one file: it is uploaded, read, toggled, deleted by every
\* delete there is, expired by the clock and by the cleanup
NextLife ==
    \/ \E u \in Uploaders, ttl \in {0, 2}, is_public \in BOOLEAN :
           /\ next_file_id < ReadId
           /\ upload_file_api(u, "a.txt", <<0>>, ttl, is_public)
    \/ \E r \in Requesters : download_file(r, ReadId)
    \/ \E r \in Requesters : get_file_preview(r, ReadId)
    \/ \E u \in Uploaders : toggle_file_privacy(u, ReadId)
    \/ \E u \in Uploaders : delete_file(u, ReadId)
    \/ \E u \in Uploaders : delete_file_api(u, ReadId)
    \/ \E u \in Uploaders : delete_all_files(u)
    \/ admin_delete_file(ReadId)
    \/ AdminService_delete_file(ReadId)
    \/ cleanup_expired_files
    \/ \E t \in Instants : Tick(t)

SpecLife == Init /\ [][NextLife]_vars

\* os.path.join(get_user_temp_directory(user_id), f"{upload_id}_info.json"):
\* the upload_id is the form field as sent; one of the form "../<v>/<id>"
\* names the file of that stem in the directory of user v
get_upload_info_path(u, upload_id) ==
    IF upload_id[1] = ".." THEN <<upload_id[2], upload_id[3]>>
                           ELSE <<u, upload_id>>

\* the temp directory of user v is there for a caller u: get_user_temp_directory
\* makes the caller's own, another one exists while it holds files
DirExists(u, v) ==
    \/ v = u
    \/ \E x \in DOMAIN upload_info \cup DOMAIN chunk_files : x[1] = v

\* the upload ids a client sends: the id of the session, or a relative path
\* that leads to it from the directory of another user
SubmittedIds == {AsmId} \cup {<<"..", v, AsmId>> : v \in Uploaders}

\* Two users: the uploaders start and complete the session, the other user
\* sends chunks and cancels under the upload ids above
NextIsolation ==
    \/ \E u \in Uploaders :
           start_chunked_upload(u, "a.txt", MAX_FILE_SIZE, MAX_FILE_SIZE)
    \/ \E u \in Users \ Uploaders, upload_id \in SubmittedIds,
          n \in 0..(MAX_FILE_SIZE - 1), d \in {<<>>, <<0>>} :
           LET k == get_upload_info_path(u, upload_id)
           IN  DirExists(u, k[1]) /\ upload_chunk(k[1], k[2], n, d)
    \/ \E u \in Users \ Uploaders, upload_id \in SubmittedIds :
           LET k == get_upload_info_path(u, upload_id)
           IN  DirExists(u, k[1]) /\ cancel_chunked_upload(k[1], k[2])
    \/ \E u \in Uploaders :
           next_file_id < MaxFiles /\ CompleteBegin("p1", u, AsmId)
    \/ CompleteAssemble("p1")
    \/ CompleteCommit("p1")
    \/ CompleteCleanup("p1")

SpecIsolation == Init /\ [][NextIsolation]_vars

\* Owner and stranger: one user uploads one file, every user asks for its
\* deletion and for its toggle, every requester downloads it
NextOwner ==
    \/ \E u \in Uploaders, is_public \in BOOLEAN :
           /\ next_file_id < ReadId
           /\ upload_file_api(u, "a.txt", <<0>>, 0, is_public)
    \/ \E r \in Requesters : download_file(r, ReadId)
    \/ \E u \in Users : toggle_file_privacy(u, ReadId)
    \/ \E u \in Users : delete_file(u, ReadId)
    \/ \E u \in Users : delete_file_api(u, ReadId)
    \/ \E u \in Users : delete_all_files(u)

SpecOwner == Init /\ [][NextOwner]_vars

\* Reads: one owner uploads one file, every requester downloads and previews
\* it, the owner toggles its privacy, the clock moves

\* Download counts: one file, downloads in two worker threads, and the
\* cache entry running out between requests
NextCount ==
    \/ \E u \in Uploaders, is_public \in BOOLEAN :
           /\ next_file_id < ReadId
           /\ upload_file_api(u, "a.txt", <<0>>, 0, is_public)
    \/ \E p \in Procs, r \in Requesters : download_file_open(p, r, ReadId)
    \/ \E p \in Procs : download_file_update(p)
    \/ \E p \in Procs : download_file_commit(p)
    \/ \E p \in Procs : download_file_return(p)
    \/ \E t \in Instants :
           (\A p \in Procs : req[p].pc = "idle") /\ Tick(t)

SpecCount == Init /\ [][NextCount]_vars

\* the ttl values a client sends with an upload (ttl: int = Form(0))
TtlValues == {-1, 0, 1, 2}

\* Expiry: a file of any ttl, and the three places that decide whether a
\* file has expired: the listing, the download and the cleanup
NextExpiry ==
    \/ \E u \in Uploaders, ttl \in TtlValues :
           /\ next_file_id < ReadId
           /\ upload_file_api(u, "a.txt", <<0>>, ttl, TRUE)
    \/ \E u \in Uploaders : get_user_files_api(u)
    \/ \E r \in Requesters : download_file(r, ReadId)
    \/ cleanup_expired_files
    \/ \E t \in Instants : Tick(t)

SpecExpiry == Init /\ [][NextExpiry]_vars

NextRead ==
    \/ \E u \in Uploaders, ttl \in {0, 2}, is_public \in BOOLEAN :
           /\ next_file_id < ReadId
           /\ upload_file_api(u, "a.txt", <<0>>, ttl, is_public)
    \/ \E r \in Requesters : download_file(r, ReadId)
    \/ \E r \in Requesters : get_file_preview(r, ReadId)
    \/ \E u \in Uploaders : toggle_file_privacy(u, ReadId)
    \/ \E u \in Users, l \in {0, DOWNLOAD_LIMIT} : update_user_limits(u, l)
    \/ \E t \in Instants : Tick(t)

SpecRead == Init /\ [][NextRead]_vars

\* ------------------------------------------------------------------ claims
\* the requests whose commit went through and whose cleanup is still pending
Succeeded(p) == req[p].pc = "cleanup"

\* p and q ran concurrently: both loaded the same counter value for the same
\* owner and both went on to commit
Overlapped(p, q) ==
    /\ p # q
    /\ Succeeded(p) /\ Succeeded(q)
    /\ req[p].user = req[q].user
    /\ req[p].loaded_storage_used = req[q].loaded_storage_used

ActiveFilesOf(u) ==
    {f \in DOMAIN files : files[f].owner_id = u /\ files[f].is_active}

FileSizes == [f \in DOMAIN files |-> files[f].file_size]

\* C1: two concurrent Complete calls of one owner, each fitting the headroom
\* on its own and together exceeding it, never both succeed.
C1_OneSuccessOneQuotaExceeded ==
    \A p, q \in Procs :
        (/\ Overlapped(p, q)
         /\ req[p].loaded_storage_used + req[p].file_size <= STORAGE_LIMIT
         /\ req[q].loaded_storage_used + req[q].file_size <= STORAGE_LIMIT
         /\ req[p].loaded_storage_used + req[p].file_size + req[q].file_size
              > STORAGE_LIMIT)
        => FALSE

\* C2: in every reachable state every owner's storage_used is at most the
\* owner's storage_limit.
C2_StorageWithinLimit ==
    \A u \in Users : storage_used[u] <= STORAGE_LIMIT

\* C3: with no request in flight, every owner's storage_used is the sum of
\* the sizes of the owner's active files.
C3_StorageIsSumOfActive ==
    (\A p \in Procs : req[p].pc = "idle")
    => \A u \in Users : storage_used[u] = SumOver(ActiveFilesOf(u), FileSizes)

\* C4: when two concurrent Complete calls of one owner both succeed,
\* storage_used ends higher by the sum of the two sizes: no update is lost.
C4_NoLostUpdate ==
    \A p, q \in Procs :
        Overlapped(p, q)
        => storage_used[req[p].user]
             = req[p].loaded_storage_used + req[p].file_size + req[q].file_size

\* the chunks of session <<u, id>> as the accepted submissions left them,
\* read off the observer: every index below n submitted, their total length,
\* and their payloads laid end to end from index 0 upwards
AllSubmitted(u, id, n) == \A i \in 0..(n - 1) : <<u, id, i>> \in DOMAIN latest

RECURSIVE SubmittedLength(_, _, _)
SubmittedLength(u, id, n) ==
    IF n = 0 THEN 0
    ELSE SubmittedLength(u, id, n - 1) + Len(latest[<<u, id, n - 1>>])

RECURSIVE InIndexOrder(_, _, _)
InIndexOrder(u, id, n) ==
    IF n = 0 THEN <<>>
    ELSE InIndexOrder(u, id, n - 1) \o latest[<<u, id, n - 1>>]

\* request p takes its assembly step on a session that has its metadata
AssemblyStep(p) ==
    /\ req[p].pc = "assemble"
    /\ req'[p].pc # "assemble"
    /\ <<req[p].user, req[p].id>> \in DOMAIN upload_info

ChunkCount(p) == upload_info[<<req[p].user, req[p].id>>].total_chunks
DeclaredSize(p) == upload_info[<<req[p].user, req[p].id>>].file_size

\* every index 0..N-1 was submitted, and none of them twice
EachIndexOnce(p) ==
    /\ AllSubmitted(req[p].user, req[p].id, ChunkCount(p))
    /\ <<req[p].user, req[p].id>> \notin DOMAIN rewrites

\* the assembly step went through and stored the bytes `data` of length `size`
Assembled(p, data, size) ==
    /\ is_upload_complete(upload_info, chunk_files, req[p].user, req[p].id)
    /\ req'[p].pc = "commit"
    /\ req'[p].file_id \in DOMAIN disk'
    /\ disk'[req'[p].file_id] = data
    /\ req'[p].file_size = size

\* the commit step writes the row of the assembled file
CommitWritesRow(p) ==
    (req[p].pc = "commit" /\ req'[p].pc = "cleanup")
    => /\ req[p].file_id \in DOMAIN files'
       /\ files'[req[p].file_id].is_active
       /\ files'[req[p].file_id].owner_id = req[p].user
       /\ files'[req[p].file_id].file_size = req[p].file_size
       /\ files'[req[p].file_id].file_size = Len(disk[req[p].file_id])

\* C5 as stated: once every index 0..N-1 was submitted exactly once, the
\* session is complete and Complete succeeds, with byte_size the sum of the
\* chunk lengths and the bytes the chunks in index order.
C5_CompleteSucceeds ==
    [][\A p \in Procs :
         /\ (AssemblyStep(p) /\ EachIndexOnce(p))
            => Assembled(p,
                         InIndexOrder(req[p].user, req[p].id, ChunkCount(p)),
                         SubmittedLength(req[p].user, req[p].id, ChunkCount(p)))
         /\ CommitWritesRow(p)]_vars

\* C5 amended: once every index 0..N-1 was submitted exactly once and the
\* chunk lengths add up to the declared total size, the session is complete
\* and Complete succeeds, with byte_size the sum of the chunk lengths and the
\* bytes the chunks in index order; when the lengths do not add up to the
\* declared size, Complete fails and stores nothing.
C5_CompleteSucceedsOnDeclaredSize ==
    [][\A p \in Procs :
         /\ (AssemblyStep(p) /\ EachIndexOnce(p))
            => IF SubmittedLength(req[p].user, req[p].id, ChunkCount(p))
                    = DeclaredSize(p)
               THEN Assembled(p,
                        InIndexOrder(req[p].user, req[p].id, ChunkCount(p)),
                        SubmittedLength(req[p].user, req[p].id, ChunkCount(p)))
               ELSE /\ req'[p].pc = "idle"
                    /\ resp'.op = "complete" /\ resp'.status = 500
                    /\ UNCHANGED <<files, disk, storage_used>>
         /\ CommitWritesRow(p)]_vars

\* a file row written by a Complete whose chunks were each submitted once
C5_Witness ==
    \E p \in Procs :
        /\ req[p].pc = "cleanup"
        /\ req[p].rewritten = "none"
        /\ req[p].file_id \in DOMAIN files
        /\ files[req[p].file_id].file_size = Len(disk[req[p].file_id])

\* C6: a chunk submitted again for a sequence number the session holds, with
\* different bytes, is accepted without an error and replaces the stored
\* chunk; the assembled file holds the latest submission of every sequence
\* number and nothing of the earlier ones.
C6_LatestSubmissionWins ==
    [][/\ (resp'.op = "chunk" /\ (latest' # latest \/ chunk_files' # chunk_files))
          => \A u \in Uploaders, n \in ChunkNumbers :
            (/\ <<u, AsmId>> \in DOMAIN upload_info
             /\ <<u, AsmId, n>> \in DOMAIN chunk_files
             /\ <<u, AsmId, n>> \in DOMAIN latest'
             /\ latest'[<<u, AsmId, n>>] # chunk_files[<<u, AsmId, n>>])
            => \/ /\ resp'.status = 200
                  /\ <<u, AsmId, n>> \in DOMAIN chunk_files'
                  /\ chunk_files'[<<u, AsmId, n>>] = latest'[<<u, AsmId, n>>]
               \/ ~upload_chunk(u, AsmId, n, latest'[<<u, AsmId, n>>])
       /\ \A p \in Procs :
            (AssemblyStep(p) /\ req'[p].pc = "commit")
            => disk'[req'[p].file_id]
                 = InIndexOrder(req[p].user, req[p].id, ChunkCount(p))]_vars

\* a Complete went through on a session one of whose chunks had been
\* written over with different bytes
C6_Witness ==
    \E p \in Procs :
        /\ req[p].pc = "cleanup"
        /\ req[p].rewritten = "different"
        /\ req[p].file_id \in DOMAIN files

\* C7: Complete on a session that lacks one of the indices 0..N-1 fails,
\* creates no file and leaves storage_used as it was.
C7_IncompleteFails ==
    [][\A p \in Procs :
         (/\ AssemblyStep(p)
          /\ ~AllSubmitted(req[p].user, req[p].id, ChunkCount(p)))
         => /\ req'[p].pc = "idle"
            /\ resp'.op = "complete" /\ resp'.status = 500
            /\ UNCHANGED <<files, disk, next_file_id, storage_used>>]_vars

\* a Complete was refused for missing chunks on a session that existed
C7_Witness ==
    /\ resp.op = "complete"
    /\ resp.status = 500
    /\ resp.detail = "Upload not complete"
    /\ resp.had_info

\* the steps that take session k away
CancelOf(k) == cancel_chunked_upload(k[1], k[2])
CleanupOf(k) ==
    \E p \in Procs : CompleteCleanup(p) /\ <<req[p].user, req[p].id>> = k
FailedCompleteOf(k) ==
    \E p \in Procs :
        /\ CompleteAssemble(p)
        /\ req'[p].pc = "idle"
        /\ <<req[p].user, req[p].id>> = k

\* C8 as stated: a session goes away only by a successful Complete or by
\* Cancel, and a Complete that fails leaves metadata and fragments as they
\* were.
C8_FailedCompleteKeepsSession ==
    [][/\ \A k \in DOMAIN upload_info :
            k \notin DOMAIN upload_info' => (CancelOf(k) \/ CleanupOf(k))
       /\ \A p \in Procs :
            (AssemblyStep(p) /\ req'[p].pc = "idle")
            => UNCHANGED <<upload_info, chunk_files>>]_vars

\* C8 amended: a session goes away only by Cancel, by the cleanup after a
\* successful Complete, or by a Complete that fails; a Complete that fails
\* removes the session's metadata and its fragments 0..N-1.
C8_SessionDestroyedOnlyBy ==
    [][/\ \A k \in DOMAIN upload_info :
            k \notin DOMAIN upload_info'
            => (CancelOf(k) \/ CleanupOf(k) \/ FailedCompleteOf(k))
       /\ \A p \in Procs :
            (AssemblyStep(p) /\ req'[p].pc = "idle")
            => /\ <<req[p].user, req[p].id>> \notin DOMAIN upload_info'
               /\ \A i \in 0..(ChunkCount(p) - 1) :
                    <<req[p].user, req[p].id, i>> \notin DOMAIN chunk_files']_vars

\* a Complete failed on a session that existed, and the session is gone
C8_Witness ==
    /\ resp.op = "complete"
    /\ resp.status = 500
    /\ resp.had_info
    /\ \A u \in Users : <<u, AsmId>> \notin DOMAIN upload_info

\* C9: once the owner's Delete of a file has returned, the file's record is
\* inactive.
C9_DeletedIsInactive ==
    (/\ resp.op = "delete_file"
     /\ resp.status = 302
     /\ resp.file_id \in DOMAIN files
     /\ files[resp.file_id].owner_id = resp.user)
    => ~files[resp.file_id].is_active

\* the delete operations that reach file f
DeleteOf(f) ==
    \/ delete_file(files[f].owner_id, f)
    \/ delete_file_api(files[f].owner_id, f)
    \/ delete_all_files(files[f].owner_id)
    \/ admin_delete_file(f)
    \/ AdminService_delete_file(f)

\* C10: a Delete of an active file makes it inactive and lowers the owner's
\* storage_used by exactly the file's size.
C10_DeleteReleasesStorage ==
    [][\A f \in DOMAIN files :
         (files[f].is_active /\ DeleteOf(f))
         => /\ ~files'[f].is_active
            /\ storage_used'[files[f].owner_id]
                 = storage_used[files[f].owner_id] - files[f].file_size]_vars

\* ------------------------------------------------------------ claims, reads
\* a read of file f by requester r: the download or the preview
ReadOf(r, f) == download_file(r, f) \/ get_file_preview(r, f)

ActiveRow(f) == f \in DOMAIN files /\ files[f].is_active

\* C11: a read of an active file with ttl h > 0 created at T by its owner is
\* allowed up to T+h and answered Gone after T+h; with ttl 0 it is never Gone.
C11_AllowThenGone ==
    [][\A r \in Users :
         (ActiveRow(ReadId) /\ files[ReadId].owner_id = r /\ ReadOf(r, ReadId))
         => LET file == files[ReadId]
                deadline == file.upload_time + file.ttl
            IN  /\ (file.ttl > 0 /\ now <= deadline) => resp'.status = 200
                /\ (file.ttl > 0 /\ now > deadline) => resp'.status = 410
                /\ file.ttl = 0 => resp'.status # 410]_vars

ServedFromRecord(f) == f \notin DOMAIN file_cache \/ ~file_cache[f].is_active

C13_NoReadOfExpired ==
    [][\A r \in Requesters :
         (ReadId \in DOMAIN files /\ is_expired(files[ReadId], now)
            /\ ReadOf(r, ReadId))
         => resp'.status # 200]_vars

\* the row is active, not expired, and r is not its owner
ReadableByOther(r, f) ==
    /\ ActiveRow(f) /\ ~is_expired(files[f], now)
    /\ files[f].owner_id # r

\* C14: a read of an active, unexpired private file by anyone but its owner,
\* signed in or anonymous, is refused (401 or 403) and changes nothing of the
\* file, whatever the download limits and counters are.
C14_PrivateIsForbidden ==
    [][\A r \in Requesters :
         (ReadableByOther(r, ReadId) /\ ~files[ReadId].is_public
            /\ ReadOf(r, ReadId))
         => (resp'.status \in {401, 403} /\ files' = files)]_vars

\* the accounts a download of file f by r could be charged to
Accounts(r, f) == {files[f].owner_id} \cup ({r} \cap Users)

TryReserveDownload(a, f) ==
    check_download_available(daily_downloads_used[a], daily_download_limit[a],
                             last_download_reset[a], now, files[f].file_size)

\* C15: a download of an active, unexpired public file by a non-owner is
\* allowed only if the reservation succeeds: used + file_size <= limit in the
\* current period, on the owner's or the reader's account.
C15_AllowOnlyWithinDownloadQuota ==
    [][\A r \in Requesters :
         (ReadableByOther(r, ReadId) /\ files[ReadId].is_public
            /\ download_file(r, ReadId) /\ resp'.status = 200)
         => \E a \in Accounts(r, ReadId) : TryReserveDownload(a, ReadId).ok]_vars

\* C16: a download that releases the file to a non-owner adds file_size to a
\* daily_downloads_used counter, and a refused or failed one changes none.
C16_DownloadUsageCommitted ==
    [][\A r \in Requesters :
         (ActiveRow(ReadId) /\ files[ReadId].owner_id # r
            /\ download_file(r, ReadId))
         => IF resp'.status = 200
            THEN \E a \in Accounts(r, ReadId) :
                   daily_downloads_used'[a]
                     = add_download_usage(daily_downloads_used[a],
                           last_download_reset[a], now,
                           files[ReadId].file_size).daily_downloads_used
            ELSE daily_downloads_used' = daily_downloads_used]_vars

\* C17: a read of a file by its owner, download or preview, leaves every
\* daily_downloads_used counter as it was.
C17_OwnerReadsAreFree ==
    [][\A r \in Users :
         (ReadId \in DOMAIN files /\ files[ReadId].owner_id = r
            /\ ReadOf(r, ReadId))
         => daily_downloads_used' = daily_downloads_used]_vars

\* the owner has downloaded the file twice
C17_Witness ==
    /\ resp.op = "download" /\ resp.status = 200
    /\ ReadId \in DOMAIN files /\ resp.user = files[ReadId].owner_id
    /\ files[ReadId].download_count = 2

\* C18: the first download by a non-owner in a new day moves the period
\* anchor (last_download_reset) of the charged account into that day.
C18_ResetOnNewPeriod ==
    [][\A r \in Requesters :
         (ReadableByOther(r, ReadId) /\ files[ReadId].is_public
            /\ download_file(r, ReadId) /\ resp'.status = 200)
         => \E a \in Accounts(r, ReadId) :
              last_download_reset'[a] \div 24 = now \div 24]_vars

\* ---------------------------------------------------- claims, upload quota
\* the last response is the refusal of a start for lack of storage
StartRefusedForQuota ==
    /\ resp.op = "start" /\ resp.status # 200
    /\ \E u \in Uploaders :
         ~check_storage_available(storage_used[u], MAX_FILE_SIZE)

\* C19: a start whose size exceeds the owner's headroom fails and creates no
\* session, and after it no chunk is accepted under an upload id that has no
\* session.
C19_RefusedStartAcceptsNothing ==
    [][\A u \in Uploaders, f \in AllowedFilenames :
         /\ (~check_storage_available(storage_used[u], MAX_FILE_SIZE)
               /\ start_chunked_upload(u, f, MAX_FILE_SIZE, MAX_FILE_SIZE))
            => (StartRefusedForQuota' /\ upload_info' = upload_info)
         /\ \A n \in 0..(MAX_FILE_SIZE - 1) :
              LET id == generate_upload_id(f, MAX_FILE_SIZE, now) IN
              (StartRefusedForQuota /\ <<u, id>> \notin DOMAIN upload_info
                 /\ upload_chunk(u, id, n, <<0>>))
              => (resp'.status # 200 /\ chunk_files' = chunk_files)]_vars

\* C20: the commit of a Complete that runs alone adds exactly the declared
\* size of the session to the owner's storage_used and writes a row whose
\* file_size is that size.
C20_CompleteAddsDeclaredSize ==
    [][\A p \in {"p1"} :
         CompleteCommit(p)
         => LET u == req[p].user
                S == req[p].file_size
            IN  /\ <<u, req[p].id>> \in DOMAIN upload_info
                     => S = DeclaredSize(p)
                /\ storage_used'[u] = storage_used[u] + S
                /\ files'[req[p].file_id].file_size = S
                /\ resp'.status = 200]_vars

\* a Complete has committed: the row is there, its session still is, and the
\* owner's storage_used is the declared size
C20_Witness ==
    /\ req["p1"].pc = "cleanup" /\ resp.op = "complete" /\ resp.status = 200
    /\ <<req["p1"].user, req["p1"].id>> \in DOMAIN upload_info
    /\ req["p1"].file_id \in DOMAIN files
    /\ files[req["p1"].file_id].file_size = DeclaredSize("p1")
    /\ storage_used[req["p1"].user] = DeclaredSize("p1")

\* --------------------------------------------------- claims, session rules
\* the total length of the stored chunks 0..n-1 of session <<u, id>>
RECURSIVE StoredLength(_, _, _)
StoredLength(u, id, n) ==
    IF n = 0 THEN 0
    ELSE StoredLength(u, id, n - 1) + Len(chunk_files[<<u, id, n - 1>>])

\* request p is about to assemble a session whose chunks are all there and
\* add up to something else than the declared size
Mismatched(p) ==
    /\ req[p].pc = "assemble"
    /\ is_upload_complete(upload_info, chunk_files, req[p].user, req[p].id)
    /\ StoredLength(req[p].user, req[p].id, ChunkCount(p)) # DeclaredSize(p)

CompleteFails(p) ==
    \/ CompleteAssemble(p) /\ req'[p].pc = "idle"
    \/ CompleteCommitFails(p)

C23_OneFilePerSession ==
    \A p, q \in Procs :
        (p # q /\ Succeeded(p) /\ Succeeded(q))
        => <<req[p].user, req[p].id>> # <<req[q].user, req[q].id>>

\* C24: a chunk is admitted only into an open session: a chunk sent under an
\* upload id that has no session (never started, cancelled or already
\* completed and cleaned up) is refused and no chunk file is written.
C24_ChunkNeedsOpenSession ==
    [][\A u \in Uploaders, n \in ChunkNumbers, d \in Payloads :
         (<<u, AsmId>> \notin DOMAIN upload_info /\ upload_chunk(u, AsmId, n, d))
         => (resp'.op = "chunk" /\ resp'.status # 200
               /\ chunk_files' = chunk_files)]_vars

\* the chunk numbers stored under a session
Received(k) == {c[3] : c \in {d \in DOMAIN chunk_files : d[1] = k[1] /\ d[2] = k[2]}}

\* C25: for every session the chunk numbers received lie in
\* 0..total_chunks-1, and the session is complete exactly when the received
\* numbers are all of 0..total_chunks-1.
C25_ReceivedWithinExpected ==
    \A k \in DOMAIN upload_info :
        LET expected == 0..(upload_info[k].total_chunks - 1) IN
        /\ Received(k) \subseteq expected
        /\ is_upload_complete(upload_info, chunk_files, k[1], k[2])
             <=> (Received(k) = expected)

\* C26: Cancel always succeeds and is idempotent: after it neither a chunk
\* file nor the info of the session remains, whatever chunk numbers were
\* sent, and a Cancel of a session that is already gone succeeds and changes
\* nothing.
C26_CancelRemovesEverything ==
    [][\A u \in Uploaders :
         cancel_chunked_upload(u, AsmId)
         => /\ resp'.op = "cancel" /\ resp'.status = 200
            /\ <<u, AsmId>> \notin DOMAIN upload_info'
            /\ \A n \in ChunkNumbers : <<u, AsmId, n>> \notin DOMAIN chunk_files'
            /\ (<<u, AsmId>> \notin DOMAIN upload_info
                  /\ \A n \in ChunkNumbers : <<u, AsmId, n>> \notin DOMAIN chunk_files)
               => (upload_info' = upload_info /\ chunk_files' = chunk_files)]_vars

\* C27: every session that was started and then abandoned without being
\* completed is eventually destroyed, with its chunk files, once time has
\* passed.
C27_AbandonedEventuallySwept ==
    \A u \in Uploaders, id \in AbandonIds :
        (<<u, id>> \in DOMAIN upload_info)
        ~> (/\ <<u, id>> \notin DOMAIN upload_info
            /\ \A n \in ChunkNumbers : <<u, id, n>> \notin DOMAIN chunk_files)

\* C28: failures reach the caller as typed kinds: a start refused for lack
\* of quota answers 413 (QuotaExceeded), a start refused for its filename
\* answers 400 (InvalidArgument), a chunk refused for its size answers 413
\* (ChunkTooLarge); none of them answers with the generic failure 500.
C28_FailuresAreTyped ==
    [][/\ \A u \in Uploaders, f \in {"a.txt", "c.bad"},
             fs \in {MAX_FILE_SIZE, MAX_FILE_SIZE + 1}, n \in 1..MaxChunks :
            (start_chunked_upload(u, f, fs, n) /\ resp'.status # 200)
            => resp'.status =
                 (IF ~check_storage_available(storage_used[u], fs) THEN 413
                  ELSE IF fs > MAX_FILE_SIZE THEN 413
                  ELSE 400)
       /\ \A u \in Uploaders, n \in ChunkNumbers, d \in Payloads :
            (Len(d) > CHUNK_LIMIT /\ upload_chunk(u, AsmId, n, d))
            => resp'.status = 413]_vars

C30_NoWayBackToActive ==
    [][\A f \in DOMAIN files \cap DOMAIN files' :
         /\ ~files[f].is_active => ~files'[f].is_active
         /\ is_expired(files[f], now) => is_expired(files'[f], now')]_vars

C30_Witness ==
    \E f \in DOMAIN files :
        /\ ~files[f].is_active
        /\ is_expired(files[f], now)
        /\ resp.op = "admin_delete" /\ resp.status = 200

\* ------------------------------------------------ claims, cache and races
\* C31: the cache never changes the outcome of a read: once the row of a
\* file is inactive, by whatever path, no download and no preview of it is
\* answered with the file.
C31_NoReadOfInactive ==
    [][\A r \in Requesters :
         (ReadId \in DOMAIN files /\ ~files[ReadId].is_active
            /\ ReadOf(r, ReadId))
         => resp'.status # 200]_vars

\* C32: a chunk write is serialized against Complete: the bytes of the file
\* a Complete produces are the bytes the session's chunk files held at one
\* single instant between the start and the end of its assembly.
C32_AssembledAtOneInstant ==
    [][\A p \in Procs :
         (assemble_file_close(p) /\ req'[p].pc = "commit")
         => disk'[req'[p].file_id] \in req[p].snaps]_vars

\* nothing of the session of user u is left: no info and no chunk file
SessionClean(u) ==
    /\ <<u, AsmId>> \notin DOMAIN upload_info
    /\ \A n \in ChunkNumbers : <<u, AsmId, n>> \notin DOMAIN chunk_files

\* request p is a Complete in flight on the session of user u
InFlightOn(p, u) ==
    /\ req[p].pc \in {"assemble", "commit"}
    /\ req[p].user = u /\ req[p].id = AsmId

\* C33: a Cancel that races with a Complete on one live session ends in one
\* of two ways: the Complete succeeds and its row holds the declared bytes,
\* or the Complete fails with no row added and storage_used as it was;
\* either way nothing of the session is left once the Cancel has returned.
C33_CancelRacesComplete ==
    [][\A p \in Procs, u \in Uploaders :
         /\ (InFlightOn(p, u) /\ <<u, AsmId>> \in DOMAIN upload_info
               /\ cancel_chunked_upload(u, AsmId))
            => SessionClean(u)'
         /\ (InFlightOn(p, u) /\ resp.op = "cancel"
               /\ CompleteAssemble(p) /\ req'[p].pc = "idle")
            => (files' = files /\ storage_used' = storage_used)
         /\ (InFlightOn(p, u) /\ CompleteCommit(p))
            => Len(disk'[req[p].file_id]) = files'[req[p].file_id].file_size]_vars

\* the row of f is private while a usable cached copy, recorded when the
\* file was public, still says public: a toggle has made the file private
ToggledPrivate(f) ==
    /\ ActiveRow(f) /\ ~files[f].is_public
    /\ f \in DOMAIN file_cache
    /\ file_cache[f].is_public /\ file_cache[f].is_active

\* C34: once a toggle has made a public file private, every download and
\* preview by anyone but the owner is refused; the cached copy recorded while
\* the file was public grants nothing.
C34_PrivateAfterToggle ==
    [][\A r \in Requesters :
         (ToggledPrivate(ReadId) /\ files[ReadId].owner_id # r
            /\ ReadOf(r, ReadId))
         => resp'.status \in {401, 403}]_vars

\* C35: a delete of a file that is already inactive changes nothing, on
\* every delete path: the file's record and every storage_used stay as they
\* are, so the size of a file is taken off storage_used at most once.
C35_SecondDeleteChangesNothing ==
    [][\A f \in DOMAIN files :
         (~files[f].is_active /\ DeleteOf(f))
         => (files'[f] = files[f] /\ storage_used' = storage_used)]_vars

\* a delete or a toggle of file f asked for by user u
DeleteOrToggleBy(u, f) ==
    \/ delete_file(u, f)
    \/ delete_file_api(u, f)
    \/ toggle_file_privacy(u, f)

\* C36: a Delete or a toggle of a file asked for by anyone but its owner is
\* answered NotFound and leaves the file's record and every quota counter as
\* they were.
C36_StrangerGetsNotFound ==
    [][\A u \in Users :
         (ActiveRow(ReadId) /\ files[ReadId].owner_id # u
            /\ DeleteOrToggleBy(u, ReadId))
         => /\ resp'.status = 404
            /\ files' = files
            /\ storage_used' = storage_used
            /\ UNCHANGED download_vars]_vars

\* C37: sessions are isolated per owner: a SubmitChunk or a Cancel of a user
\* who does not own the session, under whatever upload id, leaves the
\* session, the chunks and the storage counter of the owner as they were.
\* (In SpecIsolation chunks and cancels come from the other user only.)
SessionOf(u, ui, cf) ==
    <<[k \in {x \in DOMAIN ui : x[1] = u} |-> ui[k]],
      [k \in {x \in DOMAIN cf : x[1] = u} |-> cf[k]]>>

ChunkOrCancel ==
    \/ \E k \in Users \X {AsmId, <<"..", "u1", AsmId>>} :
           cancel_chunked_upload(k[1], k[2])
    \/ \E k \in Users \X {AsmId, <<"..", "u1", AsmId>>},
          n \in 0..(MAX_FILE_SIZE - 1), d \in Payloads :
           upload_chunk(k[1], k[2], n, d)

C37_SessionsIsolated ==
    [][ChunkOrCancel
         => \A u \in Uploaders :
                <<u, AsmId>> \in DOMAIN upload_info =>
                /\ SessionOf(u, upload_info', chunk_files')
                     = SessionOf(u, upload_info, chunk_files)
                /\ storage_used'[u] = storage_used[u]]_vars

\* C38: a StartSession that succeeds returns an upload id that no live
\* session of the same owner has, also for the same filename and size at the
\* same clock reading, and leaves the metadata of every live session as it was.
C38_FreshSessionId ==
    [][\A u \in Uploaders, n \in 1..MaxChunks :
         (start_chunked_upload(u, "a.txt", MAX_FILE_SIZE, n) /\ resp'.status = 200)
         => /\ <<u, generate_upload_id("a.txt", MAX_FILE_SIZE, now)>>
                  \notin DOMAIN upload_info
            /\ \A k \in DOMAIN upload_info : upload_info'[k] = upload_info[k]]_vars

\* C39: the stored download_count of a file changes only in the counting
\* step of a read that releases the bytes, and then by exactly one, also when
\* reads overlap; a read that is denied or fails, and every other step of a
\* read, leaves it as it was.
CountingStep(f) ==
    \E p \in Procs : /\ req[p].pc = "update" /\ req[p].file_id = f
                     /\ req'[p].pc = "commit"

C39_CountedOncePerRead ==
    [][\A f \in DOMAIN files \cap DOMAIN files' :
         files'[f].download_count # files[f].download_count
         => /\ CountingStep(f)
            /\ files'[f].download_count = files[f].download_count + 1]_vars

\* C40: at every time and for every ttl the three expiry tests give the same
\* answer for an active file: File.is_expired (the listing), the test of the
\* download path, and the selection of the cleanup of expired files.
C40_ExpiryTestsAgree ==
    \A f \in DOMAIN files :
        files[f].is_active
        => /\ File_is_expired(files[f], now) = is_expired(files[f], now)
           /\ is_expired(files[f], now) = cleanup_selects(files[f], now)


============================================================================
